---- MODULE Spec2Model ----
(***************************************************************************)
(* Model of miio/integrations/chunmi/cooker/cooker_wy3.py: the cooking     *)
(* profile codec (Wy3CookerProfile), the temperature history decoder       *)
(* (TemperatureHistory) and the status view (CookerStatus, built by        *)
(* CookerWY3.status).                                                      *)
(*                                                                         *)
(* Python values are modelled as follows.  A str is a sequence of one-     *)
(* character strings.  A bytearray is a sequence of integers 0..255, and   *)
(* Python's index i is element i+1.  An Optional value is <<>> for None    *)
(* and <<v>> otherwise.  An exception is the name of the exception; a      *)
(* CookerException is named by its message.                                *)
(***************************************************************************)
EXTENDS Integers, Sequences, FiniteSets, TLC

None == <<>>
Some(v) == <<v>>
NoExc == "none"

\* ------------------------------------------------------------ integers

\* Python's a & b for a mask b >= 0 (a of either sign, two's complement).
RECURSIVE BitAnd(_, _)
BitAnd(a, b) ==
    IF b = 0 THEN 0
    ELSE (a % 2) * (b % 2) + 2 * BitAnd(a \div 2, b \div 2)

\* Python's a | b for a, b >= 0.
RECURSIVE BitOr(_, _)
BitOr(a, b) ==
    IF a = 0 THEN b
    ELSE IF b = 0 THEN a
    ELSE (IF a % 2 = 1 \/ b % 2 = 1 THEN 1 ELSE 0) + 2 * BitOr(a \div 2, b \div 2)

\* Python's a ^ b for a, b >= 0.
RECURSIVE BitXor(_, _)
BitXor(a, b) ==
    IF a = 0 THEN b
    ELSE IF b = 0 THEN a
    ELSE (IF a % 2 # b % 2 THEN 1 ELSE 0) + 2 * BitXor(a \div 2, b \div 2)

Max2(a, b) == IF a >= b THEN a ELSE b
Min2(a, b) == IF a <= b THEN a ELSE b

\* int(x / 60) on Python ints: true division, then truncation toward zero.
IntTrueDiv(x, d) == IF x >= 0 THEN x \div d ELSE -((-x) \div d)

\* ------------------------------------------------------------ hex text

HexChars == <<"0", "1", "2", "3", "4", "5", "6", "7",
              "8", "9", "a", "b", "c", "d", "e", "f">>

\* The value of one hex digit (either case), -1 for any other character.
HexVal(c) ==
    CASE c = "0" -> 0 [] c = "1" -> 1 [] c = "2" -> 2 [] c = "3" -> 3
      [] c = "4" -> 4 [] c = "5" -> 5 [] c = "6" -> 6 [] c = "7" -> 7
      [] c = "8" -> 8 [] c = "9" -> 9
      [] c = "a" \/ c = "A" -> 10 [] c = "b" \/ c = "B" -> 11
      [] c = "c" \/ c = "C" -> 12 [] c = "d" \/ c = "D" -> 13
      [] c = "e" \/ c = "E" -> 14 [] c = "f" \/ c = "F" -> 15
      [] OTHER -> -1

IsSpace(c) == c = " "

\* bytearray.hex(): two lower-case digits per byte.
RECURSIVE ToHex(_)
ToHex(bytes) ==
    IF bytes = <<>> THEN <<>>
    ELSE <<HexChars[(Head(bytes) \div 16) + 1], HexChars[(Head(bytes) % 16) + 1]>>
         \o ToHex(Tail(bytes))

\* bytearray.fromhex(): whitespace is skipped between bytes; a byte is two
\* adjacent hex digits; anything else raises ValueError.
RECURSIVE FromHex(_)
FromHex(s) ==
    IF s = <<>> THEN [exc |-> NoExc, bytes |-> <<>>]
    ELSE IF IsSpace(Head(s)) THEN FromHex(Tail(s))
    ELSE IF Len(s) < 2 \/ HexVal(s[1]) < 0 \/ HexVal(s[2]) < 0
         THEN [exc |-> "ValueError", bytes |-> <<>>]
    ELSE LET rest == FromHex(SubSeq(s, 3, Len(s))) IN
         IF rest.exc # NoExc THEN rest
         ELSE [exc |-> NoExc,
               bytes |-> <<16 * HexVal(s[1]) + HexVal(s[2])>> \o rest.bytes]

\* hex(b)[2:]: the digits of b without leading zeros ("0" for 0).
RECURSIVE HexDigits(_)
HexDigits(n) ==
    IF n < 16 THEN <<HexChars[n + 1]>>
    ELSE HexDigits(n \div 16) \o <<HexChars[(n % 16) + 1]>>

\* int(s, 16) on a string of hex digits.
RECURSIVE IntBase16(_)
IntBase16(s) ==
    IF s = <<>> THEN 0
    ELSE 16 * IntBase16(SubSeq(s, 1, Len(s) - 1)) + HexVal(s[Len(s)])

\* ------------------------------------------------------------ checksum

\* a ^ b through a table of BitXor on 4-bit digits (a, b < 65536).
Xor4 == CHOOSE f \in {[a \in 0..15 |-> [b \in 0..15 |-> BitXor(a, b)]]} : TRUE
Xor8(a, b) == 16 * Xor4[a \div 16][b \div 16] + Xor4[a % 16][b % 16]
Xor16(a, b) == 256 * Xor8(a \div 256, b \div 256) + Xor8(a % 256, b % 256)

\* n shifts of the CRC register: width 16, polynomial 0x1021, no
\* reflection; each shift xors the polynomial in when the top bit was set.
RECURSIVE CrcShift(_, _)
CrcShift(reg, n) ==
    IF n = 0 THEN reg
    ELSE CrcShift(IF reg >= 32768
                  THEN BitXor((2 * reg) % 65536, 4129)
                  ELSE (2 * reg) % 65536, n - 1)

\* The register after one byte entered an empty register, per byte value.
CrcTable == CHOOSE f \in {[i \in 0..255 |-> CrcShift(i * 256, 8)]} : TRUE

\* One byte into the register: the byte is xored into the top eight bits
\* and shifted out eight times, which is the table entry of those bits
\* xored with the low eight bits moved up.
RECURSIVE CrcRegister(_, _)
CrcRegister(reg, bytes) ==
    IF bytes = <<>> THEN reg
    ELSE LET r == Xor16((reg % 256) * 256,
                        CrcTable[Xor8(reg \div 256, Head(bytes))])
         IN IF r >= 0 THEN CrcRegister(r, Tail(bytes)) ELSE r

\* crc.Calculator(config).checksum(data): init 0x0000, final xor 0x0000.
Crc16(bytes) == CrcRegister(0, bytes)

\* ------------------------------------------------------------ profile

At(b, i) == b[i + 1]
SetAt(b, i, v) == [b EXCEPT ![i + 1] = v]
Done(b) == [bytes |-> b, exc |-> NoExc]
Raise(b, e) == [bytes |-> b, exc |-> e]

\* The cID loop: each of bytes 3..6 as two hex digits, concatenated, read
\* back as one base-16 integer.
get_menu_id(b) ==
    LET iid(i) == LET h == HexDigits(At(b, i)) IN
                  IF Len(h) < 2 THEN <<"0">> \o h ELSE h
    IN IntBase16(iid(3) \o iid(4) \o iid(5) \o iid(6))

get_cook_time_max(b) == At(b, 10) * 60 + At(b, 11)
get_cook_time_min(b) == At(b, 12) * 60 + At(b, 13)

\* Mutant: the mask of the keep-warm capability.
is_can_schedule_wrong_bit(b) == BitAnd(At(b, 7), 32) # 0

is_can_schedule(b) == BitAnd(At(b, 7), 64) # 0
is_can_set_auto_keep_warm(b) == BitAnd(At(b, 7), 32) # 0
is_can_set_duration(b) == get_cook_time_max(b) > get_cook_time_min(b)
is_can_choose_rice(b) == get_menu_id(b) \in {2, 1}
is_can_config_taste(b) == get_menu_id(b) = 1

get_duration(b) == (At(b, 8) * 60) + At(b, 9)

\* Mutant: clamps to the maximum only.
set_duration_no_floor(b, minutes) ==
    IF Len(b) < 14 THEN Raise(b, "IndexError")
    ELSE IF ~is_can_set_duration(b) THEN Done(b)
    ELSE LET m == Min2(get_cook_time_max(b), minutes)
         IN Done(SetAt(SetAt(b, 8, BitAnd(m \div 60, 255)), 9, m % 60))

\* Reads bytes 10..13 first (IndexError on a shorter payload), then clamps.
set_duration(b, minutes) ==
    IF Len(b) < 14 THEN Raise(b, "IndexError")
    ELSE IF ~is_can_set_duration(b) THEN Done(b)
    ELSE LET max_minutes == get_cook_time_max(b)
             min_minutes == get_cook_time_min(b)
             m == Max2(min_minutes, Min2(max_minutes, minutes))
         IN Done(SetAt(SetAt(b, 8, BitAnd(m \div 60, 255)), 9, m % 60))

get_schedule_enabled(b) == BitAnd(At(b, 14), 128) = 128

set_schedule_enabled(b, enabled) ==
    IF Len(b) < 15 THEN Raise(b, "IndexError")
    ELSE IF enabled THEN Done(SetAt(b, 14, BitOr(At(b, 14), 128)))
    ELSE Done(SetAt(b, 14, BitAnd(At(b, 14), 127)))

get_schedule_duration(b) ==
    BitAnd(At(b, 14), 127) * 60 + BitAnd(At(b, 15), 127)

\* Mutant: byte 15 takes the minutes alone, losing its top bit.
set_schedule_duration_drops_flag(b, duration) ==
    IF Len(b) < 8 THEN Raise(b, "IndexError")
    ELSE IF ~is_can_schedule(b) THEN Done(b)
    ELSE IF Len(b) < 16 THEN Raise(b, "IndexError")
    ELSE set_schedule_enabled(
             SetAt(SetAt(b, 14, BitOr(BitAnd(At(b, 14), 128),
                                      BitAnd(duration \div 60, 255))),
                   15, duration % 60), TRUE)

\* Byte 14 is written before byte 15 is read: a 15-byte payload keeps the
\* new byte 14 when the read of byte 15 raises.
set_schedule_duration(b, duration) ==
    IF Len(b) < 8 THEN Raise(b, "IndexError")
    ELSE IF ~is_can_schedule(b) THEN Done(b)
    ELSE IF Len(b) < 15 THEN Raise(b, "IndexError")
    ELSE LET b1 == SetAt(b, 14, BitOr(BitAnd(At(b, 14), 128),
                                      BitAnd(duration \div 60, 255)))
         IN IF Len(b) < 16 THEN Raise(b1, "IndexError")
            ELSE LET b2 == SetAt(b1, 15,
                                 BitAnd(BitOr(duration % 60,
                                              BitAnd(At(b1, 15), 128)), 255))
                 IN set_schedule_enabled(b2, TRUE)

get_auto_keep_warm(b) == BitAnd(At(b, 15), 128) = 128

set_auto_keep_warm(b, enabled) ==
    IF Len(b) < 8 THEN Raise(b, "IndexError")
    ELSE IF ~is_can_set_auto_keep_warm(b) THEN Done(b)
    ELSE IF Len(b) < 16 THEN Raise(b, "IndexError")
    ELSE IF enabled = TRUE THEN Done(SetAt(b, 15, BitOr(At(b, 15), 128)))
    ELSE Done(SetAt(b, 15, BitAnd(At(b, 15), 127)))

get_rice_id(b) == At(b, 17) * 256 + At(b, 18)

\* riceId >> 8 is negative for a negative riceId, which a bytearray refuses.
set_rice_id(b, riceId) ==
    IF Len(b) < 7 THEN Raise(b, "IndexError")
    ELSE IF ~is_can_choose_rice(b) THEN Done(b)
    ELSE LET r == IF riceId > IntBase16(<<"f", "f", "f", "f">>) THEN 0 ELSE riceId
         IN IF Len(b) < 18 THEN Raise(b, "IndexError")
            ELSE IF r \div 256 \notin 0..255 THEN Raise(b, "ValueError")
            ELSE LET b1 == SetAt(b, 17, r \div 256)
                 IN IF Len(b) < 19 THEN Raise(b1, "IndexError")
                    ELSE Done(SetAt(b1, 18, BitAnd(r, 255)))

get_taste(b) == At(b, 19)

TasteError == "Taste must be in [0, 1, 2] from soft to hard."

\* Mutant: an index outside {0, 1, 2} is clamped instead of refused.
set_taste_clamped(b, tasteIndex) ==
    IF Len(b) < 7 THEN Raise(b, "IndexError")
    ELSE IF ~is_can_config_taste(b) THEN Done(b)
    ELSE IF Len(b) < 20 THEN Raise(b, "IndexError")
    ELSE Done(SetAt(b, 19, Max2(0, Min2(2, tasteIndex))))

set_taste(b, tasteIndex) ==
    IF Len(b) < 7 THEN Raise(b, "IndexError")
    ELSE IF ~is_can_config_taste(b) THEN Done(b)
    ELSE IF ~(tasteIndex \in {0, 1, 2}) THEN Raise(b, TasteError)
    ELSE IF Len(b) < 20 THEN Raise(b, "IndexError")
    ELSE Done(SetAt(b, 19, tasteIndex))

\* The two checksum bytes, most significant first.
calc_checksum(b) ==
    LET crc == Crc16(b)
    IN <<BitAnd(crc \div 256, 255), BitAnd(crc, 255)>>

\* The assert of calc_checksum: payload + checksum has CRC zero.
calc_checksum_assert(b) == Crc16(b \o calc_checksum(b)) = 0

\* Mutant: compares the lengths of the two checksums.
is_valid_length(b, cs) == Len(cs) = Len(calc_checksum(b))

is_valid(b, cs) == cs = calc_checksum(b)

\* Mutant: the stored checksum is emitted without update_checksum().
get_profile_hex_stale(b, stored) ==
    [hex |-> Some(ToHex(b \o stored)), checksum |-> stored, exc |-> NoExc]

\* update_checksum, then (profile_bytes + checksum).hex(); stored is
\* self.checksum before the call.
get_profile_hex(b, stored) ==
    IF ~calc_checksum_assert(b)
    THEN [hex |-> None, checksum |-> stored, exc |-> "AssertionError"]
    ELSE LET cs == calc_checksum(b)
         IN [hex |-> Some(ToHex(b \o cs)), checksum |-> cs, exc |-> NoExc]

\* Mutant: the length test on the decoded bytes.
TooShort_decoded(profile_hex) == Len(FromHex(profile_hex).bytes) < 5

\* The length test of __init__, on the text as given.
TooShort(profile_hex) == Len(profile_hex) < 5

\* Mutant: a schedule equal to the duration is applied too.
ScheduleApplies_inclusive(schedule, duration_now) ==
    schedule >= duration_now /\ schedule <= 1440

\* schedule is not None and schedule > get_duration() and schedule <= 1440
ScheduleApplies(schedule, duration_now) ==
    schedule > duration_now /\ schedule <= 1440

\* bytes[-2:] and bytes[:-2]
LastTwo(bytes) == SubSeq(bytes, Max2(1, Len(bytes) - 1), Len(bytes))
AllButLastTwo(bytes) ==
    IF Len(bytes) <= 2 THEN <<>> ELSE SubSeq(bytes, 1, Len(bytes) - 2)

\* __init__: exc names the exception that leaves it (NoExc: constructed),
\* parsed is the payload as decoded, bytes the payload after the options.
Wy3CookerProfile(profile_hex, duration, schedule, auto_keep_warm, taste) ==
    LET Failed(e) == [exc |-> e, bytes |-> <<>>, checksum |-> <<>>, parsed |-> <<>>]
    IN
    IF TooShort(profile_hex) THEN Failed("Invalid profile")
    ELSE
    LET dec == FromHex(profile_hex) IN
    IF dec.exc # NoExc THEN Failed(dec.exc)
    ELSE
    LET cs == LastTwo(dec.bytes)
        pb == AllButLastTwo(dec.bytes)
    IN
    IF ~calc_checksum_assert(pb) THEN Failed("AssertionError")
    ELSE IF ~is_valid(pb, cs) THEN Failed("Profile checksum error")
    ELSE
    LET s1 == IF duration # None THEN set_duration(pb, duration[1]) ELSE Done(pb)
        s2 == IF s1.exc # NoExc \/ schedule = None THEN s1
              ELSE IF Len(s1.bytes) < 10 THEN Raise(s1.bytes, "IndexError")
              ELSE IF ScheduleApplies(schedule[1], get_duration(s1.bytes))
                   THEN set_schedule_duration(s1.bytes, schedule[1])
              ELSE s1
        s3 == IF s2.exc # NoExc THEN s2
              ELSE IF auto_keep_warm = Some(TRUE)
                   THEN set_auto_keep_warm(s2.bytes, TRUE)
              ELSE s2
        s4 == IF s3.exc # NoExc \/ taste = None THEN s3
              ELSE set_taste(s3.bytes, taste[1])
    IN IF s4.exc # NoExc THEN Failed(s4.exc)
       ELSE [exc |-> NoExc, bytes |-> s4.bytes, checksum |-> cs, parsed |-> pb]

\* ------------------------------------------------------------ inputs

\* The number of calls made on a constructed profile.
MaxCalls == 2

\* Payloads of 20 bytes: device type, sub-type, index, menu id (3..6),
\* flags (7), duration (8, 9), max and min cook time (10..13), schedule
\* (14, 15), byte 16, rice id (17, 18), taste (19).
BasePayloads ==
    { <<2, 1, 0,  0, 0, 0, 1,  96,  0, 30,  1, 0,  0, 10,  0, 0,  0,  0, 0,  0>>,
      <<2, 1, 1,  0, 0, 0, 2,  64,  0, 40,  0, 40,  0, 40,  129, 133,  0,  0, 3,  1>>,
      <<2, 1, 2,  0, 0, 0, 3,  32,  1, 0,  2, 0,  0, 30,  2, 30,  0,  0, 0,  2>>,
      <<2, 1, 3,  0, 0, 1, 1,  0,  0, 20,  0, 10,  0, 50,  0, 0,  0,  255, 255,  0>>,
      <<2, 1, 4,  0, 0, 0, 1,  96,  0, 0,  255, 255,  0, 0,  128, 128,  0,  0, 0,  1>> }

\* Payloads too short to be a profile, still followed by their checksum.
ShortPayloads == { <<>>, <<1>>, <<1, 2>> }

\* The CRC-16 of the payload as two bytes, most significant first.
Trailer(payload) == <<Crc16(payload) \div 256, Crc16(payload) % 256>>

ValidHex(payload) == ToHex(payload \o Trailer(payload))

\* payload with bit k (0 = least significant bit of byte 0) inverted
FlipBit(payload, k) ==
    LET i == (k \div 8) + 1
        w == 2 ^ (k % 8)
    IN [payload EXCEPT ![i] = IF (@ \div w) % 2 = 1 THEN @ - w ELSE @ + w]

\* Every valid profile of CorruptBases with one payload bit inverted and the
\* trailer kept.
CorruptBases == BasePayloads \cup ShortPayloads

CorruptHexes ==
    UNION { LET cs == Trailer(p)
            IN { ToHex(FlipBit(p, k) \o cs) : k \in 0..(8 * Len(p) - 1) } :
            p \in CorruptBases }

\* Other texts: too short, not hex, of odd length, with whitespace after
\* the two checksum bytes of the empty payload, in upper case (payload ff
\* ff and its checksum), with a wrong checksum.
OtherHexes ==
    { <<>>, <<"0", "0">>, <<"z", "z">>, <<"0", "0", "0">>,
      <<"0", "0", "0", "0", "0">>,
      <<"0", "0", "0", "0", " ", " ", " ", " ">>,
      <<"F", "F", "f", "f", "1", "D", "0", "f">>,
      <<"0", "1", "0", "2", "0", "3", "0", "0", "0", "0">> }

DurationOpts == { None, Some(5), Some(90), Some(20000) }
ScheduleOpts == { None, Some(45), Some(60), Some(1440), Some(1441) }
KeepWarmOpts == { None, Some(TRUE), Some(FALSE) }
TasteOpts == { None, Some(2), Some(3) }

NewCall(hex, d, s, a, t) ==
    [op |-> "__init__", profile_hex |-> hex, duration |-> d, schedule |-> s,
     auto_keep_warm |-> a, taste |-> t]

InputCalls ==
    { NewCall(ValidHex(p), d, s, a, t) :
        p \in BasePayloads, d \in DurationOpts, s \in ScheduleOpts,
        a \in KeepWarmOpts, t \in TasteOpts }
    \cup { NewCall(ValidHex(p), d, None, None, None) :
             p \in ShortPayloads, d \in {None, Some(5)} }
    \cup { NewCall(h, None, None, None, None) : h \in CorruptHexes \cup OtherHexes }

DurationArgs == { -5, 5, 30, 90, 20000 }
ScheduleArgs == { 0, 59, 125, 1440, 7700 }
RiceArgs == { -1, 0, 258, 65535, 65536 }
TasteArgs == { -1, 0, 1, 2, 3 }

\* ------------------------------------------------------------ state

VARIABLES
    pc,             \* "new": __init__ pending; "live": constructed; "failed"; "off"
    call,           \* the last call (the pending one when pc = "new") and its arguments
    profile_bytes,  \* self.profile_bytes
    checksum,       \* self.checksum
    prev_bytes,     \* the payload before the last call (as decoded, for __init__)
    exc,            \* the exception the last call raised, NoExc if none
    ret,            \* what the last call returned: Some(hex) from get_profile_hex
    prev_ret,       \* ret of the call before, when the last is get_profile_hex
    ncalls,         \* calls made since construction
    st_pc,          \* "idle": status() pending; "ready": a CookerStatus; "failed"; "off"
    props,          \* what get_properties_for_mapping() answers
    temp,           \* what call_action("custom:get-temp-history") answers
    data,           \* CookerStatus.data: the defaultdict
    accessor,       \* the property of CookerStatus read last
    result,         \* what that read returned or raised
    nreads          \* reads made on the status

profile_vars ==
    <<pc, call, profile_bytes, checksum, prev_bytes, exc, ret, prev_ret, ncalls>>
status_vars == <<st_pc, props, temp, data, accessor, result, nreads>>
vars == <<profile_vars, status_vars>>

NoProfile ==
    /\ pc = "off"
    /\ call = [op |-> "none"]
    /\ profile_bytes = <<>>
    /\ checksum = <<>>
    /\ prev_bytes = <<>>
    /\ exc = NoExc
    /\ ret = None
    /\ prev_ret = None
    /\ ncalls = 0

NoStatus ==
    /\ st_pc = "off"
    /\ props = <<>>
    /\ temp = [code |-> 0, value |-> <<>>]
    /\ data = <<>>
    /\ accessor = "none"
    /\ result = [kind |-> "None"]
    /\ nreads = 0

Init ==
    /\ pc = "new"
    /\ call \in InputCalls
    /\ profile_bytes = <<>>
    /\ checksum = <<>>
    /\ prev_bytes = <<>>
    /\ exc = NoExc
    /\ ret = None
    /\ prev_ret = None
    /\ ncalls = 0
    /\ NoStatus

Construct ==
    /\ pc = "new"
    /\ LET r == Wy3CookerProfile(call.profile_hex, call.duration, call.schedule,
                                 call.auto_keep_warm, call.taste)
       IN /\ pc' = IF r.exc = NoExc THEN "live" ELSE "failed"
          /\ profile_bytes' = r.bytes
          /\ checksum' = r.checksum
          /\ prev_bytes' = r.parsed
          /\ exc' = r.exc
    /\ UNCHANGED <<call, ret, prev_ret, ncalls, status_vars>>

\* A mutator called on the constructed profile, with result r.
Mutate(c, r) ==
    /\ pc = "live"
    /\ ncalls < MaxCalls
    /\ call' = c
    /\ prev_bytes' = profile_bytes
    /\ profile_bytes' = r.bytes
    /\ exc' = r.exc
    /\ ret' = None
    /\ prev_ret' = None
    /\ ncalls' = ncalls + 1
    /\ UNCHANGED <<pc, checksum, status_vars>>

SetDuration ==
    \E m \in DurationArgs :
        Mutate([op |-> "set_duration", arg |-> m], set_duration(profile_bytes, m))

SetScheduleDuration ==
    \E d \in ScheduleArgs :
        Mutate([op |-> "set_schedule_duration", arg |-> d],
               set_schedule_duration(profile_bytes, d))

SetScheduleEnabled ==
    \E e \in BOOLEAN :
        Mutate([op |-> "set_schedule_enabled", flag |-> e],
               set_schedule_enabled(profile_bytes, e))

SetAutoKeepWarm ==
    \E e \in BOOLEAN :
        Mutate([op |-> "set_auto_keep_warm", flag |-> e],
               set_auto_keep_warm(profile_bytes, e))

SetRiceId ==
    \E r \in RiceArgs :
        Mutate([op |-> "set_rice_id", arg |-> r], set_rice_id(profile_bytes, r))

SetTaste ==
    \E t \in TasteArgs :
        Mutate([op |-> "set_taste", arg |-> t], set_taste(profile_bytes, t))

GetProfileHex ==
    /\ pc = "live"
    /\ ncalls < MaxCalls
    /\ LET r == get_profile_hex(profile_bytes, checksum)
       IN /\ checksum' = r.checksum
          /\ ret' = r.hex
          /\ exc' = r.exc
    /\ call' = [op |-> "get_profile_hex"]
    /\ prev_ret' = IF call.op = "get_profile_hex" THEN ret ELSE None
    /\ prev_bytes' = profile_bytes
    /\ ncalls' = ncalls + 1
    /\ UNCHANGED <<pc, profile_bytes, status_vars>>

Next ==
    \/ Construct
    \/ SetDuration
    \/ SetScheduleDuration
    \/ SetScheduleEnabled
    \/ SetAutoKeepWarm
    \/ SetRiceId
    \/ SetTaste
    \/ GetProfileHex

Spec == Init /\ [][Next]_vars

\* ------------------------------------------------------------ status view

IntV(n) == [kind |-> "int", int |-> n]
BoolV(v) == [kind |-> "bool", bool |-> v]
StrV(v) == [kind |-> "str", str |-> v]
NoneV == [kind |-> "None"]
RaiseV(e) == [kind |-> "raise", exc |-> e]

\* An Optional[int] as a returned value.
ValueV(v) == IF v = None THEN NoneV ELSE IntV(v[1])

COOKING_FAULTS ==
    <<"No Faults", "E02", "E03", "E04", "E05", "E06", "E07", "E08", "E09",
      "E10", "E11", "E12">>

\* OperationMode(value), with _missing_ answering Unknown.
OperationMode(v) ==
    CASE v = Some(1) -> "Idle"
      [] v = Some(2) -> "Running"
      [] v = Some(3) -> "Scheduled"
      [] v = Some(4) -> "AutoKeepWarm"
      [] v = Some(5) -> "Error"
      [] v = Some(6) -> "Updating"
      [] v = Some(7) -> "Finish"
      [] OTHER -> "Unknown"

\* TemperatureHistory.__init__ on a text of hex digits: one sample per
\* pair of digits; "0000" and a text of odd length give no samples.
RECURSIVE HexPairs(_)
HexPairs(s) ==
    IF s = <<>> THEN [exc |-> NoExc, data |-> <<>>]
    ELSE IF HexVal(s[1]) < 0 \/ HexVal(s[2]) < 0
         THEN [exc |-> "ValueError", data |-> <<>>]
    ELSE LET rest == HexPairs(SubSeq(s, 3, Len(s))) IN
         IF rest.exc # NoExc THEN rest
         ELSE [exc |-> NoExc,
               data |-> <<IntBase16(SubSeq(s, 1, 2))>> \o rest.data]

TemperatureHistory(s) ==
    IF s = <<"0", "0", "0", "0">> THEN [exc |-> NoExc, data |-> <<>>]
    ELSE IF Len(s) % 2 = 0 THEN HexPairs(s)
    ELSE [exc |-> NoExc, data |-> <<>>]

\* get_temperature_history(): a non-zero code raises.
get_temperature_history(response) ==
    IF response.code # 0
    THEN [exc |-> "Failed to get temperature history", data |-> <<>>]
    ELSE TemperatureHistory(response.value)

\* {x['did']: x['value'] for x in ... if x['code'] == 0}: a later entry of
\* the same did replaces an earlier one.
RECURSIVE properties_with_values(_)
properties_with_values(entries) ==
    IF entries = <<>> THEN <<>>
    ELSE LET x == entries[Len(entries)]
             before == properties_with_values(SubSeq(entries, 1, Len(entries) - 1))
         IN IF x.code = 0 THEN (x.did :> Some(x.value)) @@ before ELSE before

\* CookerWY3.status(): the mapping of the valid entries plus "temperature",
\* the last sample or None.
status(entries, response) ==
    LET th == get_temperature_history(response)
    IN IF th.exc # NoExc THEN [exc |-> th.exc, data |-> <<>>]
       ELSE LET last_temperature ==
                    IF Len(th.data) > 0 THEN Some(th.data[Len(th.data)]) ELSE None
            IN [exc |-> NoExc,
                data |-> ("temperature" :> last_temperature)
                         @@ properties_with_values(entries)]

\* defaultdict(lambda: None): d[k] answers None for a missing key, and
\* stores it.
Lookup(d, k) == IF k \in DOMAIN d THEN d[k] ELSE None
Touched(d, k) == IF k \in DOMAIN d THEN d ELSE (k :> None) @@ d

\* int(None) raises TypeError.
mode(d) == StrV(OperationMode(Lookup(d, "status")))

fault(d) ==
    LET v == Lookup(d, "fault")
    IN IF v = None THEN RaiseV("KeyError")
       ELSE IF v[1] \notin 0..11 THEN RaiseV("KeyError")
       ELSE StrV(COOKING_FAULTS[v[1] + 1])

menu(d) ==
    LET v == Lookup(d, "menu-id")
    IN IF v = None THEN RaiseV("TypeError") ELSE IntV(v[1])

\* Mutant: floor division.
remaining_floor(d) ==
    LET v == Lookup(d, "left-time")
    IN IF v = None THEN RaiseV("TypeError") ELSE IntV(v[1] \div 60)

remaining(d) ==
    LET v == Lookup(d, "left-time")
    IN IF v = None THEN RaiseV("TypeError") ELSE IntV(IntTrueDiv(v[1], 60))

cooking_delayed(d) ==
    LET v == Lookup(d, "pre-left-time")
    IN IF v = None THEN RaiseV("TypeError")
       ELSE LET delay == IntTrueDiv(v[1], 60)
            IN IF delay >= 0 THEN IntV(delay) ELSE NoneV

duration(d) ==
    LET v == Lookup(d, "cook-total-time")
    IN IF v = None THEN RaiseV("TypeError") ELSE IntV(v[1])

keep_warm(d) == BoolV(Lookup(d, "auto-keepwarm-flag") = Some(1))
keep_warm_duration(d) == ValueV(Lookup(d, "keepwarm-time"))
taste(d) == ValueV(Lookup(d, "taste"))
rice(d) == ValueV(Lookup(d, "rice-type"))
temperature(d) == ValueV(Lookup(d, "temperature"))

\* ------------------------------------------------------------ status inputs

\* Reads made on one status.
MaxReads == 1

Dids ==
    <<"status", "fault", "menu-id", "left-time", "pre-left-time",
      "cook-total-time", "auto-keepwarm-flag", "keepwarm-time", "taste",
      "rice-type">>

DidSet == { Dids[i] : i \in 1..Len(Dids) }

\* left-time, pre-left-time, cook-total-time
TimeCases ==
    { <<0, -30, 45>>, <<90, -60, 120>>, <<3600, 0, 60>>, <<59, -1, 0>>,
      <<-30, 119, 3000>>, <<125, -125, 61>> }

\* status, fault, menu-id, auto-keepwarm-flag, keepwarm-time, taste, rice-type
OtherCases == { <<2, 0, 1, 1, 30, 1, 2>>, <<99, 12, 3, 0, 0, 0, 0>> }

Values(t, o) ==
    <<o[1], o[2], o[3], t[1], t[2], t[3], o[4], o[5], o[6], o[7]>>

\* The dids whose read failed (code -4001).
FailedSets == { {} } \cup { {d} : d \in DidSet } \cup { DidSet }

Response(t, o, failed) ==
    [i \in 1..Len(Dids) |->
        [did |-> Dids[i], value |-> Values(t, o)[i],
         code |-> IF Dids[i] \in failed THEN -4001 ELSE 0]]

TempResponses ==
    { [code |-> 0, value |-> <<"0", "0", "0", "0">>],
      [code |-> 0, value |-> <<"1", "6", "1", "5", "1", "5", "1", "6", "1", "c">>],
      [code |-> 0, value |-> <<"1", "6", "1", "5", "1">>],
      [code |-> -1, value |-> <<>>] }

\* ------------------------------------------------------------ status actions

InitStatus ==
    /\ NoProfile
    /\ st_pc = "idle"
    /\ props \in { Response(t, o, f) : t \in TimeCases, o \in OtherCases, f \in FailedSets }
    /\ temp \in TempResponses
    /\ data = <<>>
    /\ accessor = "none"
    /\ result = NoneV
    /\ nreads = 0

Status ==
    /\ st_pc = "idle"
    /\ LET r == status(props, temp)
       IN /\ st_pc' = IF r.exc = NoExc THEN "ready" ELSE "failed"
          /\ data' = r.data
          /\ result' = IF r.exc = NoExc THEN NoneV ELSE RaiseV(r.exc)
    /\ UNCHANGED <<props, temp, accessor, nreads, profile_vars>>

\* One property read: the key it looks up is stored when it was missing.
Read(name, key, value) ==
    /\ st_pc = "ready"
    /\ nreads < MaxReads
    /\ accessor' = name
    /\ result' = value
    /\ data' = Touched(data, key)
    /\ nreads' = nreads + 1
    /\ UNCHANGED <<st_pc, props, temp, profile_vars>>

ReadMode == Read("mode", "status", mode(data))
ReadFault == Read("fault", "fault", fault(data))
ReadMenu == Read("menu", "menu-id", menu(data))
ReadRemaining == Read("remaining", "left-time", remaining(data))
ReadCookingDelayed == Read("cooking_delayed", "pre-left-time", cooking_delayed(data))
ReadDuration == Read("duration", "cook-total-time", duration(data))
ReadKeepWarm == Read("keep_warm", "auto-keepwarm-flag", keep_warm(data))
ReadKeepWarmDuration == Read("keep_warm_duration", "keepwarm-time", keep_warm_duration(data))
ReadTaste == Read("taste", "taste", taste(data))
ReadRice == Read("rice", "rice-type", rice(data))
ReadTemperature == Read("temperature", "temperature", temperature(data))

NextStatus ==
    \/ Status
    \/ ReadMode
    \/ ReadFault
    \/ ReadMenu
    \/ ReadRemaining
    \/ ReadCookingDelayed
    \/ ReadDuration
    \/ ReadKeepWarm
    \/ ReadKeepWarmDuration
    \/ ReadTaste
    \/ ReadRice
    \/ ReadTemperature

SpecStatus == InitStatus /\ [][NextStatus]_vars

\* ------------------------------------------------------------ properties

\* new differs from old at most at the (Python) indices of idx
SameExcept(old, new, idx) ==
    /\ Len(new) = Len(old)
    /\ \A i \in 0..(Len(old) - 1) : i \notin idx => At(new, i) = At(old, i)

Clamped(m, lo, hi) == IF m < lo THEN lo ELSE IF m > hi THEN hi ELSE m

\* The last call was mutator op, made on a 20-byte payload.
Called(op) == pc = "live" /\ call.op = op /\ Len(prev_bytes) = 20

Reparsed(hex) == Wy3CookerProfile(hex, None, None, None, None)

\* C1 as stated: after any calls on a constructed profile, get_profile_hex()
\* returns the payload and the big-endian CRC-16 of the payload, a profile
\* constructed from that text is accepted and has the same payload, and a
\* second get_profile_hex() in a row returns the same text.
C1_RoundTripOriginal ==
    (pc = "live" /\ call.op = "get_profile_hex") =>
        /\ exc = NoExc
        /\ ret = Some(ToHex(profile_bytes \o Trailer(profile_bytes)))
        /\ Reparsed(ret[1]).exc = NoExc
        /\ Reparsed(ret[1]).bytes = profile_bytes
        /\ prev_ret # None => ret = prev_ret

\* C1 as amended: the same for every profile with a non-empty payload; for
\* the empty payload (a profile constructed from a text with whitespace,
\* such as "0000    ") the text returned is "0000", which __init__ refuses
\* as "Invalid profile".
C1_RoundTrip ==
    (pc = "live" /\ call.op = "get_profile_hex") =>
        /\ exc = NoExc
        /\ ret = Some(ToHex(profile_bytes \o Trailer(profile_bytes)))
        /\ checksum = Trailer(profile_bytes)
        /\ IF profile_bytes # <<>>
           THEN /\ Reparsed(ret[1]).exc = NoExc
                /\ Reparsed(ret[1]).bytes = profile_bytes
                /\ Reparsed(ret[1]).checksum = checksum
           ELSE Reparsed(ret[1]).exc = "Invalid profile"
        /\ prev_ret # None => ret = prev_ret

\* A second get_profile_hex() in a row, on a 20-byte payload that the
\* constructor's options changed.
C1_Witness ==
    /\ pc = "live"
    /\ call.op = "get_profile_hex"
    /\ prev_ret # None
    /\ Len(profile_bytes) = 20
    /\ profile_bytes \notin BasePayloads
    /\ Reparsed(ret[1]).bytes = profile_bytes

\* C2: a valid profile text with one payload bit inverted and its trailer
\* kept is never accepted: __init__ fails with the checksum error.
C2_ChecksumSensitivity ==
    (pc # "new" /\ call.op = "__init__" /\ call.profile_hex \in CorruptHexes) =>
        /\ pc = "failed"
        /\ exc = "Profile checksum error"

\* The lowest bit of the last byte of a 20-byte payload inverted.
C2_Witness ==
    /\ pc = "failed"
    /\ exc = "Profile checksum error"
    /\ \E p \in BasePayloads :
           call.profile_hex = ToHex(FlipBit(p, 152) \o Trailer(p))

\* C3 as stated: a text that decodes to fewer than 5 bytes always fails
\* with "Invalid profile".
C3_DecodedLengthOriginal ==
    (pc # "new" /\ call.op = "__init__"
       /\ FromHex(call.profile_hex).exc = NoExc
       /\ Len(FromHex(call.profile_hex).bytes) < 5) =>
        /\ pc = "failed"
        /\ exc = "Invalid profile"

\* C3 as amended: a text of fewer than 5 characters always fails with
\* "Invalid profile", whatever its content (hex or not, correct trailer or
\* not), and no other text does: the test is on the characters of the text
\* and comes before the decoding and the checksum comparison.
C3_TextLength ==
    (pc # "new" /\ call.op = "__init__") =>
        ((Len(call.profile_hex) < 5) <=> (pc = "failed" /\ exc = "Invalid profile"))

\* "0000": two bytes, the correct CRC-16 of the empty payload before them.
C3_Witness ==
    /\ pc = "failed"
    /\ exc = "Invalid profile"
    /\ call.profile_hex = ValidHex(<<>>)
    /\ Len(call.profile_hex) = 4

\* C4 as stated: where can-set-duration holds, set_duration(m) leaves
\* get_duration() = max(min, min(max, m)), in bytes 8 and 9 as (v div 60,
\* v mod 60), and changes no other byte.
C4_DurationClampOriginal ==
    (Called("set_duration") /\ is_can_set_duration(prev_bytes)) =>
        LET v == Clamped(call.arg, get_cook_time_min(prev_bytes),
                         get_cook_time_max(prev_bytes))
        IN /\ exc = NoExc
           /\ get_duration(profile_bytes) = v
           /\ At(profile_bytes, 8) = v \div 60
           /\ At(profile_bytes, 9) = v % 60
           /\ SameExcept(prev_bytes, profile_bytes, {8, 9})

\* C4 as amended: byte 8 is (v div 60) mod 256 and byte 9 is v mod 60 for
\* the clamped value v, no other byte changes, and get_duration() = v
\* whenever v < 15360 (v div 60 fits a byte).
C4_DurationClamp ==
    (Called("set_duration") /\ is_can_set_duration(prev_bytes)) =>
        LET v == Clamped(call.arg, get_cook_time_min(prev_bytes),
                         get_cook_time_max(prev_bytes))
        IN /\ exc = NoExc
           /\ At(profile_bytes, 8) = (v \div 60) % 256
           /\ At(profile_bytes, 9) = v % 60
           /\ SameExcept(prev_bytes, profile_bytes, {8, 9})
           /\ v < 15360 => get_duration(profile_bytes) = v

\* min 10, max 60: set_duration(5) stores 10.
C4_Witness ==
    /\ Called("set_duration")
    /\ get_cook_time_min(prev_bytes) = 10
    /\ get_cook_time_max(prev_bytes) = 60
    /\ call.arg = 5
    /\ get_duration(prev_bytes) # 10
    /\ get_duration(profile_bytes) = 10

\* C5: a mutator whose capability is false returns without raising and
\* leaves all 20 payload bytes as they were, for any argument.
C5_CapabilityGating ==
    /\ (Called("set_duration") /\ ~is_can_set_duration(prev_bytes)) =>
           (exc = NoExc /\ profile_bytes = prev_bytes)
    /\ (Called("set_schedule_duration") /\ BitAnd(At(prev_bytes, 7), 64) = 0) =>
           /\ exc = NoExc
           /\ profile_bytes = prev_bytes
           /\ get_schedule_enabled(profile_bytes) = get_schedule_enabled(prev_bytes)
    /\ (Called("set_auto_keep_warm") /\ BitAnd(At(prev_bytes, 7), 32) = 0) =>
           (exc = NoExc /\ profile_bytes = prev_bytes)
    /\ (Called("set_rice_id") /\ get_menu_id(prev_bytes) \notin {1, 2}) =>
           (exc = NoExc /\ profile_bytes = prev_bytes)
    /\ (Called("set_taste") /\ get_menu_id(prev_bytes) # 1) =>
           (exc = NoExc /\ profile_bytes = prev_bytes)

\* set_schedule_duration on a profile without bit 0x40 whose schedule is
\* not enabled.
C5_Witness ==
    /\ Called("set_schedule_duration")
    /\ BitAnd(At(prev_bytes, 7), 64) = 0
    /\ call.arg = 125
    /\ get_schedule_duration(profile_bytes) # 125
    /\ ~get_schedule_enabled(profile_bytes)

\* C6: with menu id 1, set_taste(i) outside {0, 1, 2} raises the validation
\* error and changes nothing; inside, it changes byte 19 only and
\* get_taste() returns i.
C6_TasteValidation ==
    (Called("set_taste") /\ get_menu_id(prev_bytes) = 1) =>
        IF call.arg \in {0, 1, 2}
        THEN /\ exc = NoExc
             /\ SameExcept(prev_bytes, profile_bytes, {19})
             /\ get_taste(profile_bytes) = call.arg
        ELSE /\ exc = TasteError
             /\ profile_bytes = prev_bytes

\* set_taste(3) refused on a menu-1 profile.
C6_Witness ==
    /\ Called("set_taste")
    /\ get_menu_id(prev_bytes) = 1
    /\ call.arg = 3
    /\ exc = TasteError

\* C7: constructed with a duration and a schedule only, the duration goes
\* through set_duration first, and the schedule is applied only if given,
\* greater than the duration then held and at most 1440; otherwise bytes
\* 14 and 15 are those of the input.
C7_ConstructionOptions ==
    (pc = "live" /\ call.op = "__init__" /\ ncalls = 0 /\ Len(prev_bytes) = 20
       /\ call.auto_keep_warm = None /\ call.taste = None) =>
        LET after_duration ==
                IF call.duration = None THEN prev_bytes
                ELSE set_duration(prev_bytes, call.duration[1]).bytes
            held == get_duration(profile_bytes)
            applied == /\ call.schedule # None
                       /\ call.schedule[1] > held
                       /\ call.schedule[1] <= 1440
        IN /\ SameExcept(after_duration, profile_bytes, {14, 15})
           /\ ~applied =>
                 /\ At(profile_bytes, 14) = At(prev_bytes, 14)
                 /\ At(profile_bytes, 15) = At(prev_bytes, 15)
           /\ (applied /\ BitAnd(At(prev_bytes, 7), 64) # 0) =>
                 /\ get_schedule_duration(profile_bytes) = call.schedule[1]
                 /\ get_schedule_enabled(profile_bytes)

\* A schedule equal to the clamped duration (60) is not applied.
C7_Witness ==
    /\ pc = "live"
    /\ call.op = "__init__"
    /\ ncalls = 0
    /\ call.auto_keep_warm = None
    /\ call.taste = None
    /\ call.duration = Some(20000)
    /\ call.schedule = Some(60)
    /\ get_duration(profile_bytes) = 60
    /\ get_duration(prev_bytes) # 60
    /\ BitAnd(At(prev_bytes, 7), 64) # 0
    /\ get_schedule_duration(profile_bytes) # 60

\* C10: with can-schedule, set_schedule_duration(d), 0 <= d <= 1440, makes
\* get_schedule_duration() = d, sets the schedule-enabled flag, keeps the
\* auto-keep-warm flag and changes bytes 14 and 15 only;
\* set_schedule_enabled and set_auto_keep_warm change bit 0x80 of byte 14
\* and of byte 15 only.
C10_ScheduleFrame ==
    /\ (Called("set_schedule_duration") /\ BitAnd(At(prev_bytes, 7), 64) # 0
          /\ call.arg >= 0 /\ call.arg <= 1440) =>
           /\ exc = NoExc
           /\ get_schedule_duration(profile_bytes) = call.arg
           /\ At(profile_bytes, 14) >= 128
           /\ (At(profile_bytes, 15) >= 128) = (At(prev_bytes, 15) >= 128)
           /\ SameExcept(prev_bytes, profile_bytes, {14, 15})
    /\ Called("set_schedule_enabled") =>
           /\ exc = NoExc
           /\ SameExcept(prev_bytes, profile_bytes, {14})
           /\ At(profile_bytes, 14) % 128 = At(prev_bytes, 14) % 128
           /\ (At(profile_bytes, 14) >= 128) = call.flag
           /\ get_schedule_duration(profile_bytes) = get_schedule_duration(prev_bytes)
    /\ Called("set_auto_keep_warm") =>
           /\ exc = NoExc
           /\ SameExcept(prev_bytes, profile_bytes, {15})
           /\ At(profile_bytes, 15) % 128 = At(prev_bytes, 15) % 128
           /\ get_schedule_duration(profile_bytes) = get_schedule_duration(prev_bytes)

\* set_schedule_duration(59) on a profile whose auto-keep-warm flag is set
\* and whose schedule was different.
C10_Witness ==
    /\ Called("set_schedule_duration")
    /\ BitAnd(At(prev_bytes, 7), 64) # 0
    /\ call.arg = 59
    /\ At(prev_bytes, 15) >= 128
    /\ get_schedule_duration(prev_bytes) # 59
    /\ get_schedule_duration(profile_bytes) = 59

\* The value of key in the mapping status() built, None when it is missing.
Underlying(key) == Lookup(status(props, temp).data, key)

\* q is v / 60 with the fraction dropped
TruncatedMinutes(q, v) ==
    \/ v >= 0 /\ q >= 0 /\ 60 * q <= v /\ v < 60 * (q + 1)
    \/ v < 0 /\ q <= 0 /\ 60 * q >= v /\ v > 60 * (q - 1)

AccessorKey ==
    [menu |-> "menu-id", remaining |-> "left-time",
     cooking_delayed |-> "pre-left-time", duration |-> "cook-total-time",
     keep_warm |-> "auto-keepwarm-flag", keep_warm_duration |-> "keepwarm-time",
     taste |-> "taste", rice |-> "rice-type", temperature |-> "temperature"]

\* C9: every accessor other than mode and fault returns a null value
\* rather than failing when its property is missing from the mapping.
C9_AbsentKeys ==
    (st_pc = "ready" /\ accessor \in DOMAIN AccessorKey
       /\ Underlying(AccessorKey[accessor]) = None) =>
        /\ result.kind # "raise"
        /\ accessor # "keep_warm" => result = NoneV

====
